---- MODULE Spec2Model ----
(***************************************************************************)
(* Maintenance scripts of the gita/ directory: every script loads          *)
(* gita.json, changes one field of every record and writes the file back.  *)
(*                                                                         *)
(* Strings are sequences of one-character strings, so that split, int,     *)
(* zero padded formatting, replace and the marker pattern are computed     *)
(* the way Python computes them.  The marker glyph U+0965 (double danda)   *)
(* is written "|" here; no input of the model holds any other bar.         *)
(***************************************************************************)
EXTENDS Integers, Sequences, FiniteSets, TLC

(* ------------------------------ bounds --------------------------------- *)
MaxRecords == 2
MaxRuns == 2

(* --------------------------- string helpers ---------------------------- *)
Digits == {"0", "1", "2", "3", "4", "5", "6", "7", "8", "9"}

DigitChars == <<"0", "1", "2", "3", "4", "5", "6", "7", "8", "9">>

DigitVal(c) == (CHOOSE k \in 1..10 : DigitChars[k] = c) - 1

IsDigits(s) == Len(s) > 0 /\ \A k \in 1..Len(s) : s[k] \in Digits

\* the literals int() accepts over the alphabet of the inputs: an optional
\* sign and one or more decimal digits (blanks and "_" occur in no operand)
IsIntLiteral(s) ==
    \/ IsDigits(s)
    \/ Len(s) > 1 /\ s[1] \in {"+", "-"} /\ IsDigits(Tail(s))

RECURSIVE DigitsVal(_)
DigitsVal(s) ==
    IF s = <<>> THEN 0
    ELSE 10 * DigitsVal(SubSeq(s, 1, Len(s) - 1)) + DigitVal(s[Len(s)])

\* int(s) for a literal s
IntOf(s) ==
    IF s[1] = "-" THEN 0 - DigitsVal(Tail(s))
    ELSE IF s[1] = "+" THEN DigitsVal(Tail(s))
    ELSE DigitsVal(s)

RECURSIVE NatStr(_)
NatStr(n) ==
    IF n < 10 THEN <<DigitChars[n + 1]>>
    ELSE NatStr(n \div 10) \o <<DigitChars[(n % 10) + 1]>>

\* str(n) / f"{n}"
Str(n) == IF n < 0 THEN <<"-">> \o NatStr(0 - n) ELSE NatStr(n)

RECURSIVE Zeros(_)
Zeros(k) == IF k <= 0 THEN <<>> ELSE <<"0">> \o Zeros(k - 1)

\* f"{n:0{w}d}": the sign counts in the width, zeros follow the sign
Pad(n, w) ==
    IF n < 0
    THEN <<"-">> \o Zeros(w - 1 - Len(NatStr(0 - n))) \o NatStr(0 - n)
    ELSE Zeros(w - Len(NatStr(n))) \o NatStr(n)

\* s.split(c) for a one-character separator c
RECURSIVE Split(_, _)
Split(s, c) ==
    IF \A k \in 1..Len(s) : s[k] # c THEN <<s>>
    ELSE LET p == CHOOSE k \in 1..Len(s) :
                      s[k] = c /\ \A j \in 1..(k - 1) : s[j] # c
         IN  <<SubSeq(s, 1, p - 1)>> \o Split(SubSeq(s, p + 1, Len(s)), c)

StartsWithAt(s, k, t) ==
    k + Len(t) - 1 <= Len(s) /\ SubSeq(s, k, k + Len(t) - 1) = t

EndsWith(s, t) ==
    Len(t) <= Len(s) /\ SubSeq(s, Len(s) - Len(t) + 1, Len(s)) = t

\* s.replace(t, ''): every occurrence of t, left to right, not overlapping
RECURSIVE Remove(_, _)
Remove(s, t) ==
    IF s = <<>> THEN <<>>
    ELSE IF StartsWithAt(s, 1, t) THEN Remove(SubSeq(s, Len(t) + 1, Len(s)), t)
    ELSE <<s[1]>> \o Remove(Tail(s), t)

Mp3 == <<".", "m", "p", "3">>

AudioSlash == <<"a", "u", "d", "i", "o", "/">>

(* ------------------------------ state ---------------------------------- *)
VARIABLES
    disk,                 \* gita.json: [closed, shlokas]
    audio_dir_exists,     \* the directory audio/ exists
    files,                \* audio/: file name -> "complete" | "partial"
    pc,                   \* position of the running script, "idle" if none
    script,               \* the script of the current (or last) run
    exit,                 \* how the last run ended
    runs,                 \* runs started so far
    data,                 \* data['shlokas'] of the running script
    i,                    \* index of the record the loop is at
    cand,                 \* index of the candidate url tried next
    successful_downloads,
    failed_downloads,
    fetched,              \* records a request was issued for, this run
    existed,              \* records whose file existed when reached
    resolved,             \* records some candidate succeeded for
    slept                 \* records followed by time.sleep

vars == <<disk, audio_dir_exists, files, pc, script, exit, runs, data, i, cand,
          successful_downloads, failed_downloads, fetched, existed, resolved,
          slept>>

loopvars == <<i, cand, successful_downloads, failed_downloads, fetched,
              existed, resolved, slept>>

Scripts == {"clear_audio", "clear_all_audio", "setup_audio",
            "download_audio", "setup_local_audio", "update_sr"}

(* ------------------------------ inputs --------------------------------- *)
\* a non-empty audio value entered through the UI
SomeUrl == <<"u">>

\* records of gita.json: 'sr#' is the field sr
RecordPool ==
    { [chapter |-> 1, sr |-> <<"1", "-", "1">>,
       shloka |-> <<"x", "|", "1", "-", "1", "|">>, audio |-> <<>>],
      [chapter |-> 2, sr |-> <<"2", "-", "1", "5">>,
       shloka |-> <<"|", "2", "-", "1", "5", "|">>, audio |-> SomeUrl],
      [chapter |-> 5, sr |-> <<"5", "-", "?">>,
       shloka |-> <<"x">>, audio |-> SomeUrl],
      [chapter |-> 2, sr |-> <<"2", "-", "1">>,
       shloka |-> <<"|", "2", "-", "|", "2", "-", "4", "7", "|", "x",
                    "|", "3", "-", "1", "|">>, audio |-> <<>>],
      [chapter |-> 3, sr |-> <<"3">>,
       shloka |-> <<"x", "|", "3", "-", "|">>, audio |-> <<>>] }

\* the datasets gita.json may hold; nothing keeps sr# unique
Datasets == UNION { [1..n -> RecordPool] : n \in 1..MaxRecords }

F_01_001 == <<"0", "1", "_", "0", "0", "1">> \o Mp3

F_02_015 == <<"0", "2", "_", "0", "1", "5">> \o Mp3

F_2_15 == <<"2", "_", "1", "5">> \o Mp3

F_notes == <<"n", "o", "t", "e", "s", ".", "t", "x", "t">>

F_x == <<"x">> \o Mp3

F_7 == <<"7">> \o Mp3

\* listings of audio/ before the first run; every file is a whole file
InitialDirs ==
    { {}, {F_01_001, F_7}, {F_02_015, F_notes}, {F_02_015, F_2_15, F_x} }

Init ==
    /\ \E d \in Datasets : disk = [closed |-> TRUE, shlokas |-> d]
    /\ \E dir \in InitialDirs :
           /\ files = [f \in dir |-> "complete"]
           /\ audio_dir_exists \in (IF dir = {} THEN BOOLEAN ELSE {TRUE})
    /\ pc = "idle"
    /\ script = "none"
    /\ exit = "none"
    /\ runs = 0
    /\ data = <<>>
    /\ i = 0
    /\ cand = 0
    /\ successful_downloads = 0
    /\ failed_downloads = <<>>
    /\ fetched = {}
    /\ existed = {}
    /\ resolved = {}
    /\ slept = {}

(* ------------------------- start of a script --------------------------- *)
\* json.load(f) succeeds on a file that was written and closed
Readable(d) == d.closed

ResetLoop ==
    /\ i' = 1
    /\ cand' = 0
    /\ successful_downloads' = 0
    /\ failed_downloads' = <<>>
    /\ fetched' = {}
    /\ existed' = {}
    /\ resolved' = {}
    /\ slept' = {}

\* download_audio.py makes audio/ before it opens gita.json
MakesAudioDir(s) == s = "download_audio"

\* setup_local_audio.py exits with status 1 when audio/ is missing
NeedsAudioDir(s) == s = "setup_local_audio"

\* with open('gita.json') ... json.load(f)
Start(s) ==
    /\ pc = "idle"
    /\ runs < MaxRuns
    /\ NeedsAudioDir(s) => audio_dir_exists
    /\ Readable(disk)
    /\ runs' = runs + 1
    /\ script' = s
    /\ exit' = "running"
    /\ pc' = "loaded"
    /\ data' = disk.shlokas
    /\ audio_dir_exists' = (audio_dir_exists \/ MakesAudioDir(s))
    /\ ResetLoop
    /\ UNCHANGED <<disk, files>>

\* json.load raises on a truncated or partly written gita.json
ReadFail(s) ==
    /\ pc = "idle"
    /\ runs < MaxRuns
    /\ NeedsAudioDir(s) => audio_dir_exists
    /\ ~Readable(disk)
    /\ runs' = runs + 1
    /\ script' = s
    /\ exit' = "read_error"
    /\ data' = <<>>
    /\ audio_dir_exists' = (audio_dir_exists \/ MakesAudioDir(s))
    /\ ResetLoop
    /\ UNCHANGED <<disk, files, pc>>

\* setup_local_audio.py: exit(1) before gita.json is opened
SetupFail ==
    /\ pc = "idle"
    /\ runs < MaxRuns
    /\ ~audio_dir_exists
    /\ runs' = runs + 1
    /\ script' = "setup_local_audio"
    /\ exit' = "setup_error"
    /\ data' = <<>>
    /\ ResetLoop
    /\ UNCHANGED <<disk, files, pc, audio_dir_exists>>

(* ---------------------------- sr# parsing ------------------------------ *)
\* sr_parts = shloka['sr#'].split('-'); int(sr_parts[0]); int(sr_parts[1])
\* ok is FALSE when int raises ValueError or sr_parts[1] raises IndexError
ParseSr(sr) ==
    LET sr_parts == Split(sr, "-")
        good == /\ IsIntLiteral(sr_parts[1])
                /\ Len(sr_parts) >= 2
                /\ IsIntLiteral(sr_parts[2])
    IN  [ok |-> good,
         chapter |-> IF good THEN IntOf(sr_parts[1]) ELSE 0,
         verse |-> IF good THEN IntOf(sr_parts[2]) ELSE 0]

(* --------------------------- clearing scripts -------------------------- *)
\* shloka['audio'] = ''
ClearRecord(rec) == [rec EXCEPT !.audio = <<>>]

ClearAll(d) == [k \in 1..Len(d) |-> ClearRecord(d[k])]

\* clear_audio.py and clear_all_audio.py: the loop over data['shlokas']
ClearAudio ==
    /\ pc = "loaded"
    /\ script \in {"clear_audio", "clear_all_audio"}
    /\ data' = ClearAll(data)
    /\ pc' = "save"
    /\ UNCHANGED <<disk, audio_dir_exists, files, script, exit, runs>>
    /\ UNCHANGED loopvars

\* setup_audio.py: the loop parses sr# of each record before clearing it
SetupAudioParses(d) == \A k \in 1..Len(d) : ParseSr(d[k].sr).ok

SetupAudio ==
    /\ pc = "loaded"
    /\ script = "setup_audio"
    /\ SetupAudioParses(data)
    /\ data' = ClearAll(data)
    /\ pc' = "save"
    /\ UNCHANGED <<disk, audio_dir_exists, files, script, exit, runs>>
    /\ UNCHANGED loopvars

\* setup_audio.py: int() or the index raises, the script ends in a traceback
SetupAudioCrash ==
    /\ pc = "loaded"
    /\ script = "setup_audio"
    /\ ~SetupAudioParses(data)
    /\ data' = <<>>
    /\ pc' = "idle"
    /\ exit' = "traceback"
    /\ UNCHANGED <<disk, audio_dir_exists, files, script, runs>>
    /\ UNCHANGED loopvars

(* ------------------------------ update_sr ------------------------------ *)
Bar == "|"

\* length of the longest run of digits of s that starts at position k (\d+)
RECURSIVE DigitRun(_, _)
DigitRun(s, k) ==
    IF k <= Len(s) /\ s[k] \in Digits THEN 1 + DigitRun(s, k + 1) ELSE 0

\* the pattern  bar (\d+) - (\d+) bar  tried at position k of s
MatchAt(s, k) ==
    LET a == DigitRun(s, k + 1)
        b == DigitRun(s, k + a + 2)
        e == k + a + b + 2
    IN  [found |-> /\ s[k] = Bar
                   /\ a >= 1
                   /\ k + a + 1 <= Len(s) /\ s[k + a + 1] = "-"
                   /\ b >= 1
                   /\ e <= Len(s) /\ s[e] = Bar,
         group1 |-> SubSeq(s, k + 1, k + a),
         group2 |-> SubSeq(s, k + a + 2, k + a + b + 1)]

\* re.search: the match at the leftmost position that has one
re_search(s) ==
    LET hits == { k \in 1..Len(s) : MatchAt(s, k).found }
    IN  IF hits = {} THEN [found |-> FALSE, group1 |-> <<>>, group2 |-> <<>>]
        ELSE MatchAt(s, CHOOSE k \in hits : \A j \in hits : k <= j)

UpdateSrRecordSwapped(rec) ==
    LET match == re_search(rec.shloka)
    IN  IF match.found
        THEN [rec EXCEPT !.sr = match.group2 \o <<"-">> \o match.group1]
        ELSE [rec EXCEPT !.sr = rec.sr \o <<"-", "?">>]

\* the body of the loop of update_sr.py
UpdateSrRecord(rec) ==
    LET match == re_search(rec.shloka)
    IN  IF match.found
        THEN [rec EXCEPT !.sr = match.group1 \o <<"-">> \o match.group2]
        ELSE [rec EXCEPT !.sr = Str(rec.chapter) \o <<"-", "?">>]

UpdateSr ==
    /\ pc = "loaded"
    /\ script = "update_sr"
    /\ data' = [k \in 1..Len(data) |-> UpdateSrRecord(data[k])]
    /\ pc' = "save"
    /\ UNCHANGED <<disk, audio_dir_exists, files, script, exit, runs>>
    /\ UNCHANGED loopvars

(* -------------------------- setup_local_audio -------------------------- *)
\* the orders os.listdir may list a directory in
RECURSIVE Listings(_)
Listings(S) ==
    IF S = {} THEN {<<>>}
    ELSE UNION { { <<f>> \o rest : rest \in Listings(S \ {f}) } : f \in S }

\* parts of a file name; ok is FALSE when int or the index raises
ParseName(filename) ==
    LET parts == Split(Remove(filename, Mp3), "_")
        good == /\ IsIntLiteral(parts[1])
                /\ Len(parts) >= 2
                /\ IsIntLiteral(parts[2])
    IN  [ok |-> good,
         chapter |-> IF good THEN IntOf(parts[1]) ELSE 0,
         verse |-> IF good THEN IntOf(parts[2]) ELSE 0]

\* sr = f"{chapter}-{verse}"
KeyOf(chapter, verse) == Str(chapter) \o <<"-">> \o Str(verse)

\* one turn of the scan: audio_files[sr] = f"audio/{filename}"
ScanFile(audio_files, filename) ==
    IF EndsWith(filename, Mp3) /\ ParseName(filename).ok
    THEN LET sr == KeyOf(ParseName(filename).chapter,
                         ParseName(filename).verse)
         IN  [k \in DOMAIN audio_files \cup {sr} |->
                  IF k = sr THEN AudioSlash \o filename ELSE audio_files[k]]
    ELSE audio_files

RECURSIVE Scan(_, _)
Scan(audio_files, listing) ==
    IF listing = <<>> THEN audio_files
    ELSE Scan(ScanFile(audio_files, Head(listing)), Tail(listing))

BindRecordClearing(rec, audio_files) ==
    IF rec.sr \in DOMAIN audio_files
    THEN [rec EXCEPT !.audio = audio_files[rec.sr]]
    ELSE [rec EXCEPT !.audio = <<>>]

\* the body of the update loop
BindRecord(rec, audio_files) ==
    IF rec.sr \in DOMAIN audio_files
    THEN [rec EXCEPT !.audio = audio_files[rec.sr]]
    ELSE rec

BindLocal ==
    /\ pc = "loaded"
    /\ script = "setup_local_audio"
    /\ \E listing \in Listings(DOMAIN files) :
           LET audio_files == Scan(<<>>, listing)
           IN  data' = [k \in 1..Len(data) |-> BindRecord(data[k], audio_files)]
    /\ pc' = "save"
    /\ UNCHANGED <<disk, audio_dir_exists, files, script, exit, runs>>
    /\ UNCHANGED loopvars

(* ---------------------------- download_audio --------------------------- *)
\* the urls tried for a verse, in order
get_audio_urls(ch, vr) ==
    << <<"https://bhagavadgita.io/static/audio/">>
           \o Pad(ch, 2) \o <<"_">> \o Pad(vr, 3) \o Mp3,
       <<"https://www.gitasupersite.iitk.ac.in/srimad/sloka/audio/">>
           \o Str(ch) \o <<"/">> \o Str(vr) \o Mp3,
       <<"https://media.blubrry.com/bhagavad_gita/.../Bhagavad-Gita_">>
           \o Pad(ch, 2) \o <<".">> \o Pad(vr, 2) \o Mp3,
       <<"https://www.holy-bhagavad-gita.org/public/audio/0">>
           \o Str(ch) \o <<"/0">> \o Str(ch) \o Pad(vr, 2) \o Mp3 >>

\* filename = f"audio/{chapter:02d}_{verse:03d}.mp3"
Filename(chapter, verse) ==
    AudioSlash \o Pad(chapter, 2) \o <<"_">> \o Pad(verse, 3) \o Mp3

\* os.path.exists of a path below audio/
PathExists(fs, path) ==
    /\ StartsWithAt(path, 1, AudioSlash)
    /\ SubSeq(path, Len(AudioSlash) + 1, Len(path)) \in DOMAIN fs

AlreadyExistsNever(fs, filename) == FALSE

\* the test of the already-exists branch
AlreadyExists(fs, filename) == PathExists(fs, filename)

\* what a fetch can do: "ok" the payload is accepted and written whole;
\* "rejected" requests.get raises, the status is not 200 or the content is
\* not audio; "stream_error" the payload is accepted, the file is opened
\* and iter_content raises before the payload is complete
FetchOutcomes == {"ok", "rejected", "stream_error"}

\* download_audio(url, filename): the value returned and the files left
download_audio(outcome, fs, filename) ==
    LET name == SubSeq(filename, Len(AudioSlash) + 1, Len(filename))
        put(st) == [f \in DOMAIN fs \cup {name} |->
                        IF f = name THEN st ELSE fs[f]]
    IN  IF outcome = "ok" THEN [ret |-> TRUE, fs |-> put("complete")]
        ELSE IF outcome = "stream_error"
             THEN [ret |-> FALSE, fs |-> put("partial")]
        ELSE [ret |-> FALSE, fs |-> fs]

RecordFailureDropped(failed, sr) == failed

\* failed_downloads.append(shloka['sr#'])
RecordFailure(failed, sr) == Append(failed, sr)

SleepsAfterUnlessFailed(branch) == branch = "downloaded"

\* time.sleep(0.5) is reached unless the branch ends in continue
SleepsAfter(branch) == branch # "exists"

\* the position after a record: the delay, the next record or the save
AfterRecord(branch) ==
    IF SleepsAfter(branch) THEN "sleep"
    ELSE IF i + 1 > Len(data) THEN "save" ELSE "loaded"

\* the record loop reaches record i and its sr# does not parse
DownloadCrash ==
    /\ pc = "loaded"
    /\ script = "download_audio"
    /\ ~ParseSr(data[i].sr).ok
    /\ pc' = "idle"
    /\ exit' = "traceback"
    /\ data' = <<>>
    /\ UNCHANGED <<disk, audio_dir_exists, files, script, runs>>
    /\ UNCHANGED loopvars

\* the record loop reaches record i: parse, file name, already-exists test
DownloadReach ==
    /\ pc = "loaded"
    /\ script = "download_audio"
    /\ ParseSr(data[i].sr).ok
    /\ LET filename == Filename(ParseSr(data[i].sr).chapter,
                                ParseSr(data[i].sr).verse)
       IN  /\ existed' = IF PathExists(files, filename)
                         THEN existed \cup {i} ELSE existed
           /\ IF AlreadyExists(files, filename)
              THEN /\ data' = [data EXCEPT ![i].audio = filename]
                   /\ successful_downloads' = successful_downloads + 1
                   /\ pc' = AfterRecord("exists")
                   /\ i' = IF SleepsAfter("exists") THEN i ELSE i + 1
                   /\ cand' = cand
              ELSE /\ pc' = "try"
                   /\ cand' = 1
                   /\ UNCHANGED <<data, successful_downloads, i>>
    /\ UNCHANGED <<disk, audio_dir_exists, files, script, exit, runs,
                   failed_downloads, fetched, resolved, slept>>

\* one turn of the loop over sources, and the failure branch after the last
DownloadTry ==
    /\ pc = "try"
    /\ \E outcome \in FetchOutcomes :
         LET p == ParseSr(data[i].sr)
             filename == Filename(p.chapter, p.verse)
             sources == get_audio_urls(p.chapter, p.verse)
             r == download_audio(outcome, files, filename)
         IN  /\ files' = r.fs
             /\ fetched' = fetched \cup {i}
             /\ IF r.ret
                THEN /\ data' = [data EXCEPT ![i].audio = filename]
                     /\ successful_downloads' = successful_downloads + 1
                     /\ resolved' = resolved \cup {i}
                     /\ pc' = AfterRecord("downloaded")
                     /\ i' = IF SleepsAfter("downloaded") THEN i ELSE i + 1
                     /\ UNCHANGED <<cand, failed_downloads>>
                ELSE IF cand < Len(sources)
                THEN /\ cand' = cand + 1
                     /\ UNCHANGED <<data, successful_downloads, resolved, pc,
                                    i, failed_downloads>>
                ELSE /\ failed_downloads' =
                            RecordFailure(failed_downloads, data[i].sr)
                     /\ data' = [data EXCEPT ![i].audio = <<>>]
                     /\ pc' = AfterRecord("failed")
                     /\ i' = IF SleepsAfter("failed") THEN i ELSE i + 1
                     /\ UNCHANGED <<cand, successful_downloads, resolved>>
    /\ UNCHANGED <<disk, audio_dir_exists, script, exit, runs, existed, slept>>

\* time.sleep(0.5), then the next record or the end of the loop
DownloadSleep ==
    /\ pc = "sleep"
    /\ slept' = slept \cup {i}
    /\ i' = i + 1
    /\ pc' = IF i + 1 > Len(data) THEN "save" ELSE "loaded"
    /\ UNCHANGED <<disk, audio_dir_exists, files, script, exit, runs, data,
                   cand, successful_downloads, failed_downloads, fetched,
                   existed, resolved>>

(* ------------------------- writing gita.json --------------------------- *)
\* open('gita.json', 'w') truncates the file
WriteOpen ==
    /\ pc = "save"
    /\ disk' = [closed |-> FALSE, shlokas |-> <<>>]
    /\ pc' = "dump"
    /\ UNCHANGED <<audio_dir_exists, files, script, exit, runs, data>>
    /\ UNCHANGED loopvars

\* json.dump writes the document piece by piece
WriteChunk ==
    /\ pc = "dump"
    /\ Len(disk.shlokas) < Len(data)
    /\ disk' = [disk EXCEPT !.shlokas = Append(@, data[Len(@) + 1])]
    /\ UNCHANGED <<audio_dir_exists, files, pc, script, exit, runs, data>>
    /\ UNCHANGED loopvars

\* the with block closes the file; the prints that follow change nothing
WriteClose ==
    /\ pc = "dump"
    /\ Len(disk.shlokas) = Len(data)
    /\ disk' = [disk EXCEPT !.closed = TRUE]
    /\ pc' = "idle"
    /\ exit' = "ok"
    /\ data' = <<>>
    /\ UNCHANGED <<audio_dir_exists, files, script, runs>>
    /\ UNCHANGED loopvars

\* the process is terminated from outside; nothing of it runs any more
Kill ==
    /\ pc # "idle"
    /\ pc' = "idle"
    /\ exit' = "killed"
    /\ data' = <<>>
    /\ UNCHANGED <<disk, audio_dir_exists, files, script, runs>>
    /\ UNCHANGED loopvars

Next ==
    \/ \E s \in Scripts : Start(s)
    \/ \E s \in Scripts : ReadFail(s)
    \/ SetupFail
    \/ ClearAudio
    \/ SetupAudio
    \/ SetupAudioCrash
    \/ UpdateSr
    \/ BindLocal
    \/ DownloadCrash
    \/ DownloadReach
    \/ DownloadTry
    \/ DownloadSleep
    \/ WriteOpen
    \/ WriteChunk
    \/ WriteClose
    \/ Kill

Spec == Init /\ [][Next]_vars

(* ------------------------------ properties ----------------------------- *)
InDownload == script = "download_audio"

\* the run ended by itself after writing gita.json
Completed == pc = "idle" /\ exit = "ok"

\* the canonical path of record k of dataset d
PathOf(d, k) == Filename(ParseSr(d[k].sr).chapter, ParseSr(d[k].sr).verse)

NameOf(d, k) == SubSeq(PathOf(d, k), Len(AudioSlash) + 1, Len(PathOf(d, k)))

Count(seq, x) == Cardinality({ k \in 1..Len(seq) : seq[k] = x })

\* C1: a run of download_audio.py never ends in an uncaught exception of
\* the record loop; only an unreadable gita.json aborts it
C1_NoFatalPerRecord == ~(InDownload /\ pc = "idle" /\ exit = "traceback")

\* no file existed for record k and no candidate succeeded for it
Unresolved(k) == k \notin existed /\ k \notin resolved

\* C2: at the end of a run of download_audio.py every record that had no
\* file and no working candidate has an empty audio and one entry of its
\* own in failed_downloads, and a resolved record has none: each sr# is in
\* failed_downloads once for every unresolved record that carries it
C2_FailureListComplete ==
    (InDownload /\ Completed) =>
        \A k \in 1..Len(disk.shlokas) :
            /\ Unresolved(k) => disk.shlokas[k].audio = <<>>
            /\ Count(failed_downloads, disk.shlokas[k].sr) =
                   Cardinality({ j \in 1..Len(disk.shlokas) :
                                     /\ Unresolved(j)
                                     /\ disk.shlokas[j].sr = disk.shlokas[k].sr })

C2_Witness ==
    /\ InDownload /\ Completed
    /\ \E k \in 1..Len(disk.shlokas) :
           k \in fetched /\ k \notin resolved /\ k \notin existed
    /\ \E k \in 1..Len(disk.shlokas) : k \in resolved

\* C3: a record whose canonical file exists when the loop reaches it gets
\* no request, and its audio is that path
C3_NoRefetch ==
    InDownload =>
        \A k \in existed :
            /\ k \notin fetched
            /\ data # <<>> => data[k].audio = PathOf(data, k)
            /\ Completed => disk.shlokas[k].audio = PathOf(disk.shlokas, k)

C3_Witness ==
    /\ InDownload /\ Completed
    /\ runs >= 2
    /\ \E k \in existed :
           /\ disk.shlokas[k].audio = PathOf(disk.shlokas, k)
           /\ files[NameOf(disk.shlokas, k)] = "complete"

\* the keys the scan of audio/ builds, whatever the order of the listing
Matches(f, sr) ==
    /\ EndsWith(f, Mp3)
    /\ ParseName(f).ok
    /\ KeyOf(ParseName(f).chapter, ParseName(f).verse) = sr

Bound == script = "setup_local_audio" /\ pc = "save"

\* C4: setup_local_audio.py leaves the audio of a record unchanged when no
\* file of audio/ gives the key of its sr#
C4_AdditiveOnly ==
    Bound =>
        \A k \in 1..Len(data) :
            (\A f \in DOMAIN files : ~Matches(f, data[k].sr)) =>
                data[k] = disk.shlokas[k]

C4_Witness ==
    /\ Bound
    /\ \E k \in 1..Len(data) :
           /\ \A f \in DOMAIN files : ~Matches(f, data[k].sr)
           /\ data[k].audio # <<>>
    /\ \E k \in 1..Len(data) : data[k].audio # disk.shlokas[k].audio

\* C5: after setup_local_audio.py a record whose sr# is the key of an .mp3
\* file of audio/ has the audio "audio/<that file>"
C5_BindsEachMatch ==
    Bound =>
        \A f \in DOMAIN files : \A k \in 1..Len(data) :
            Matches(f, data[k].sr) => data[k].audio = AudioSlash \o f

\* a marker: bar, digits, hyphen, digits, bar
IsMarkerText(t) ==
    /\ Len(t) >= 5
    /\ t[1] = Bar /\ t[Len(t)] = Bar
    /\ \E h \in 3..(Len(t) - 2) :
           /\ t[h] = "-"
           /\ IsDigits(SubSeq(t, 2, h - 1))
           /\ IsDigits(SubSeq(t, h + 1, Len(t) - 1))

MarkersOf(s) ==
    { ab \in (1..Len(s)) \X (1..Len(s)) :
          ab[1] < ab[2] /\ IsMarkerText(SubSeq(s, ab[1], ab[2])) }

Recomputed == script = "update_sr" /\ pc = "save"

\* C6: update_sr.py sets sr# to the "<chapter>-<verse>" of a marker of
\* shloka, or to "<stored chapter>-?" when shloka holds no marker; shloka
\* and chapter stay as they are, and a second pass changes nothing
C6_RecomputeIdentifier ==
    Recomputed =>
        \A k \in 1..Len(data) :
            /\ data[k].shloka = disk.shlokas[k].shloka
            /\ data[k].chapter = disk.shlokas[k].chapter
            /\ IF MarkersOf(data[k].shloka) = {}
               THEN data[k].sr = Str(data[k].chapter) \o <<"-", "?">>
               ELSE \E ab \in MarkersOf(data[k].shloka) :
                        data[k].sr = SubSeq(data[k].shloka, ab[1] + 1, ab[2] - 1)
            /\ UpdateSrRecord(data[k]) = data[k]

C6_Witness ==
    /\ Recomputed
    /\ \E k \in 1..Len(data) :
           /\ MarkersOf(data[k].shloka) # {}
           /\ data[k].sr # disk.shlokas[k].sr
    /\ \E k \in 1..Len(data) :
           /\ MarkersOf(data[k].shloka) = {}
           /\ data[k].sr # disk.shlokas[k].sr

\* C7: after a run of a clearing script on a readable gita.json no record
\* has a non-empty audio
C7_ClearsEveryRecord ==
    (/\ script \in {"clear_audio", "clear_all_audio", "setup_audio"}
     /\ pc = "idle"
     /\ exit \in {"ok", "traceback"}) =>
        \A k \in 1..Len(disk.shlokas) : disk.shlokas[k].audio = <<>>

\* C8: when a run is terminated from outside, gita.json is a complete
\* dataset
C8_InterruptionSafe == (pc = "idle" /\ exit = "killed") => Readable(disk)

\* C9 as stated: every record the loop has left was followed by the delay
C9_DelayAfterEveryRecord ==
    InDownload => \A k \in 1..(i - 1) : k \in slept

\* C9 as amended: the delay follows exactly the records a request was
\* issued for; a record resolved from an existing file is followed by none
C9_DelayAfterFetchedRecords ==
    InDownload => \A k \in 1..(i - 1) : k \in slept <=> k \in fetched

C9_Witness ==
    /\ InDownload
    /\ \E k \in 1..(i - 1) : k \in slept /\ k \in fetched
    /\ \E k \in 1..(i - 1) : k \notin slept /\ k \in existed

\* C10: a record all of whose candidates failed has no file at its
\* canonical path, and an audio set by download_audio.py names a whole file
C10_NoFileAfterFailure ==
    (InDownload /\ pc # "idle") =>
        /\ \A k \in 1..(i - 1) :
               (k \in fetched /\ k \notin resolved) =>
                   NameOf(data, k) \notin DOMAIN files
        /\ \A k \in existed \cup resolved :
               files[NameOf(data, k)] = "complete"

====
